---- MODULE Spec2Model ----
(***************************************************************************)
(* A model of sound_cows: the scope-tui command-line pipeline (option      *)
(* tuning, the file source and its zero-padded reads) and the player /     *)
(* oscilloscope frame loop of the terminal application.                    *)
(*                                                                         *)
(* These specifications share the module:                                  *)
(*   ScopeSpec     scope-tui: SourceOptions::tune, FileSource::new,        *)
(*                 FileSource::recv with read_with_padding                 *)
(*   PlayerSpec    AudioPlayer under every sequence of its calls           *)
(*   FrameSpec     run_app's frame loop under URL requests, the pause key  *)
(*                 and the tab keys                                        *)
(*   AdjustSpec    the frame loop under the scale and window keys          *)
(*   NormalKeySpec the frame loop under the other Normal mode keys         *)
(*   EngineSpec    the display modes' process on the frames of a playing   *)
(*                 file                                                    *)
(*   RequestSpec   the background requests, their threads and the channel  *)
(*   ChannelSpec   the same with progress of the loop and of the threads   *)
(*   ResultsSpec   the search results and the keys of their mode           *)
(*   TypingSpec    the text being typed and the keys that end the loop     *)
(*   Spec          run_app's frame loop under every input                  *)
(* Sample values are integers: a Signed16PCM sample v stands for v/32768   *)
(* in the scope-tui part (in steps of 1/32768^2), decoded samples of the   *)
(* player are opaque non-zero integers, 0 stands for 0.0.  The scale is    *)
(* counted in 1/500, the volume in tenths.                                 *)
(***************************************************************************)
EXTENDS Integers, Sequences, FiniteSets, TLC

(* ------------------------------ bounds -------------------------------- *)
\* largest channel count given on the command line / carried by a decoded file
MaxChannels == 2
\* largest --buffer option given on the command line
MaxBuffer == 3
\* largest length, in bytes, of the file FileSource reads
MaxFile == 4
\* number of FileSource::recv calls followed
MaxRecv == 2

None == [some |-> FALSE]
Some(v) == [some |-> TRUE, v |-> v]

Min(a, b) == IF a < b THEN a ELSE b

Zeros(n) == [i \in 1..n |-> 0]

(* ======== scope-tui: notes (music.rs, from its specification) ========= *)

\* The texts given to --tune: note names, and texts that are no note.
TuneTexts == {"A4", "A6", "B6", "E7", "A7", "H2", ""}

\* Note::from_str: the fundamental frequency of the note in 1/100 Hz
\* (equal temperament, A4 = 440 Hz), or an error for a text that is no note.
ParseNote(txt) ==
    CASE txt = "A4" -> [ok |-> TRUE, freq |-> 44000]
      [] txt = "A6" -> [ok |-> TRUE, freq |-> 176000]
      [] txt = "B6" -> [ok |-> TRUE, freq |-> 197553]
      [] txt = "E7" -> [ok |-> TRUE, freq |-> 263702]
      [] txt = "A7" -> [ok |-> TRUE, freq |-> 352000]
      [] OTHER      -> [ok |-> FALSE]

\* The note's period in samples, sample_rate / frequency, rounded to the
\* nearest integer.
RoundedPeriod(note, sample_rate) ==
    (2 * sample_rate * 100 + note.freq) \div (2 * note.freq)

\* Note::tune_buffer_size: the smallest multiple of the rounded period.
TuneBufferSize(note, sample_rate) == RoundedPeriod(note, sample_rate)

(* ================= scope-tui: SourceOptions::tune ====================== *)

\* u32::is_multiple_of
IsMultipleOf(a, b) == IF b = 0 THEN a = 0 ELSE a % b = 0

\* `self.channels as u32 * 2` (the values of the model stay far below 2^32)
AlignUnit(channels) == channels * 2

\* a loop that is never entered
AlignLoopSkipped(buffer, unit) == buffer

\* a loop that steps by three instead of one
RECURSIVE AlignLoopStep3(_, _)
AlignLoopStep3(buffer, unit) ==
    IF IsMultipleOf(buffer, unit)
    THEN AlignLoopStep3(buffer + 3, unit)
    ELSE buffer

\* the while loop of tune: buffer += 1 as long as it is a multiple of unit
RECURSIVE AlignLoop(_, _)
AlignLoop(buffer, unit) ==
    IF IsMultipleOf(buffer, unit)
    THEN AlignLoop(buffer + 1, unit)
    ELSE buffer

\* a tune whose alignment loop also runs when the note did not parse
TunedOptionsAligningAnyway(o) ==
    IF o.tune.some
    THEN IF ParseNote(o.tune.v).ok
         THEN [o EXCEPT !.buffer =
                  AlignLoop(TuneBufferSize(ParseNote(o.tune.v), o.sample_rate),
                            AlignUnit(o.channels))]
         ELSE [o EXCEPT !.buffer = AlignLoop(o.buffer, AlignUnit(o.channels))]
    ELSE o

\* SourceOptions::tune as a function of the options
TunedOptions(o) ==
    IF o.tune.some
    THEN IF ParseNote(o.tune.v).ok
         THEN [o EXCEPT !.buffer =
                  AlignLoop(TuneBufferSize(ParseNote(o.tune.v), o.sample_rate),
                            AlignUnit(o.channels))]
         ELSE o  \* eprintln!, options kept
    ELSE o

(* ================= scope-tui: the file source ========================== *)

\* chunks(2) taken from the second byte on
ChunksOfOffByOne(buf) ==
    [k \in 1..(Len(buf) \div 2) |->
        SubSeq(buf, 2 * k, Min(2 * k + 1, Len(buf)))]

\* slice::chunks(2): consecutive pieces of two bytes, the last one shorter
\* when the length is odd
ChunksOf(buf) ==
    [k \in 1..((Len(buf) + 1) \div 2) |->
        SubSeq(buf, 2 * k - 1, Min(2 * k, Len(buf)))]

\* the normalization divisor recv hands to stream_to_matrix (32768.0)
NormDivisor == 32768

\* Matrix values of the file source are counted in steps of
\* 1/(32768 * 32768): the value 1.0 is FinePerOne steps
FinePerOne == NormDivisor * NormDivisor

\* the signed 16-bit little-endian integer of a two-byte chunk
SignedLE(chunk) ==
    LET u == chunk[1] + 256 * chunk[2]
    IN  IF u >= 32768 THEN u - 65536 ELSE u

\* Signed16PCM::parse of a two-byte chunk: the decoded integer divided by
\* the type's maximum magnitude 32768 (format.rs, from its specification)
Parse16(chunk) == SignedLE(chunk) * (FinePerOne \div 32768)

\* the parser already emits normalized output
ParserNormalizes == TRUE

\* a router that is off by one channel
RouteSampleShifted(m, i, sample, channels) ==
    [m EXCEPT ![((i + 1) % channels) + 1] = Append(@, sample)]

\* `audio_data[i % channels].push(sample)`, i counted from 0
RouteSample(m, i, sample, channels) ==
    [m EXCEPT ![(i % channels) + 1] = Append(@, sample)]

RECURSIVE PushAll(_, _, _, _)
PushAll(m, samples, i, channels) ==
    IF i >= Len(samples)
    THEN m
    ELSE PushAll(RouteSample(m, i, samples[i + 1], channels),
                 samples, i + 1, channels)

\* the de-interleaving loop: `channels` empty buffers, every sample routed
DeInterleave(samples, channels) ==
    PushAll([c \in 1..channels |-> <<>>], samples, 0, channels)

\* stream_to_matrix (input/mod.rs, from its specification): round-robin over the
\* channels; the values are divided by the divisor only when the parser
\* does not emit normalized output
StreamToMatrix(stream, channels, norm) ==
    DeInterleave([k \in 1..Len(stream) |->
                     IF ParserNormalizes THEN stream[k]
                     ELSE stream[k] \div norm],
                 channels)

\* padding that leaves the rest of the buffer as it was
PadKeeping(buffer, from) == buffer

\* `for b in remaining_slice { *b = 0 }`: the bytes after `from` become 0
PadZeros(buffer, from) ==
    [i \in 1..Len(buffer) |-> IF i > from THEN 0 ELSE buffer[i]]

\* a read of n bytes into buffer[from..] from the file at position pos
CopyIn(buffer, from, data, pos, n) ==
    [i \in 1..Len(buffer) |->
        IF i > from /\ i <= from + n THEN data[pos + (i - from)] ELSE buffer[i]]

\* The contents a file can have: prefixes of two byte patterns.
FilePattern(p, i) ==
    IF p = 1 THEN i ELSE <<0, 128, 255, 127>>[((i - 1) % 4) + 1]

FileContents ==
    {[i \in 1..n |-> FilePattern(p, i)] : n \in 0..MaxFile, p \in {1, 2}}

\* what an out-of-contract parse of a one-byte chunk may take as high byte
TruncatedHighBytes == {0, 255}

SampleRates == {8000, 16000}

OptionSets ==
    [channels : 1..MaxChannels,
     buffer : 0..MaxBuffer,
     sample_rate : SampleRates,
     tune : {None} \cup {Some(t) : t \in TuneTexts}]

VARIABLES
    spc,          \* position of the scope-tui main / recv
    opts,         \* SourceOptions
    opts_in,      \* the options as parsed from the command line
    fs_channels,  \* FileSource.channels
    fs_buffer,    \* FileSource.buffer
    file_data,    \* the bytes of the opened file
    file_pos,     \* the file's read position
    read_so_far,  \* read_with_padding's local
    read_from,    \* file position when the current recv began
    read_failed,  \* the read of the current recv returned Err
    parse_chunks, \* the chunks the current recv handed to Signed16PCM::parse
    recv_result,  \* what the last recv returned
    nrecv         \* number of recv calls made

scopeVars == <<spc, opts, opts_in, fs_channels, fs_buffer, file_data,
               file_pos, read_so_far, read_from, read_failed, parse_chunks,
               recv_result, nrecv>>


(* ================= the application: AudioPlayer ======================== *)

\* AudioPlayer::new: two channels of 1024 zero samples at 44100 Hz
InitAudioLen == 1024
InitSampleRate == 44100
InitChannels == 2
\* App::new: graph_config.samples, width and scale (scale in 1/500, so
\* that 0.01 times the magnitude 0.2 is one step)
InitSamples == 200
InitWidth == 200
InitScale == 500
\* App::new: current_tab, the RADIO tab
RadioTab == 4

\* App::new: radio_state.select(Some(3)) among ten stations
InitStation == 3
StationCount == 10
\* next_tab: (current_tab + 1) % 5
TabCount == 5

\* largest number of interleaved samples a decoded file holds
MaxSamples == 3
\* the clock is followed for this many ticks
MaxClock == 2
\* background requests (running threads and unhandled events) outstanding at once
MaxPending == 2
\* largest window size get_window is asked for besides graph_config.samples
MaxWindow == 3
\* largest number of results a search returns
MaxResults == 1
\* largest number of characters typed into the search box
MaxInput == 1

\* What stream_cache.mp3 can hold after a download: audio small enough to be
\* loaded whole (its interleaved samples are 1, 2, .., n; its rate is 1 or 2
\* samples per clock tick), audio above the 20 MB threshold, or something
\* the decoder rejects.
SmallFiles ==
    {[kind |-> "audio", big |-> FALSE, channels |-> c, sample_rate |-> 1,
      samples |-> [i \in 1..n |-> i]] :
        c \in 1..MaxChannels, n \in 0..MaxSamples}
    \cup
    {[kind |-> "audio", big |-> FALSE, channels |-> MaxChannels,
      sample_rate |-> 2, samples |-> [i \in 1..MaxSamples |-> i]]}

BigFiles ==
    {[kind |-> "audio", big |-> TRUE, channels |-> MaxChannels,
      sample_rate |-> 1, samples |-> <<>>]}

NoFile == [kind |-> "missing"]
BadFile == [kind |-> "garbage"]

AudioFiles == SmallFiles \cup BigFiles \cup {BadFile}

\* AudioPlayer::new: volume 1.0, in tenths
InitVolume == 10

NewPlayer(has_sink) ==
    [has_sink |-> has_sink,
     sink_state |-> IF has_sink THEN "playing" ELSE "none",
     audio_data |-> [c \in 1..InitChannels |-> Zeros(InitAudioLen)],
     sample_rate |-> InitSampleRate,
     channels |-> InitChannels,
     is_streaming_mode |-> FALSE,
     start_time |-> None,
     elapsed_when_paused |-> 0,
     total_duration |-> None,
     error_message |-> IF has_sink THEN None ELSE Some("Audio init error"),
     is_paused |-> FALSE,
     volume |-> InitVolume]

\* the new sink of play_file: appended source, timing reset, not paused
WithNewSink(p, t) ==
    [p EXCEPT !.sink_state = "playing",
              !.start_time = Some(t),
              !.elapsed_when_paused = 0,
              !.is_paused = FALSE]

\* AudioPlayer::play_file at clock t on file f; reopen_ok and sink_ok say
\* whether the second File::open/Decoder::new and Sink::try_new succeed
PlayFile(p, f, t, reopen_ok, sink_ok) ==
    IF ~p.has_sink THEN p
    ELSE LET stopped == [p EXCEPT !.sink_state = "stopped"]
         IN  IF f.kind = "missing"
             THEN [stopped EXCEPT !.error_message = Some("File not found")]
             ELSE IF f.kind # "audio"
             THEN [stopped EXCEPT !.error_message = Some("Format error")]
             ELSE LET q == [stopped EXCEPT !.sample_rate = f.sample_rate,
                                           !.channels = f.channels]
                  IN  IF f.big
                      THEN LET r == [q EXCEPT
                                 !.is_streaming_mode = TRUE,
                                 !.audio_data = [c \in 1..f.channels |-> <<>>],
                                 !.total_duration = Some("approximate")]
                           IN  IF sink_ok THEN WithNewSink(r, t) ELSE r
                      ELSE LET r == [q EXCEPT
                                 !.is_streaming_mode = FALSE,
                                 !.total_duration =
                                     Some(<<Len(f.samples) \div f.channels,
                                            f.sample_rate>>)]
                               w == IF reopen_ok /\ sink_ok
                                    THEN WithNewSink(r, t) ELSE r
                           IN  [w EXCEPT !.audio_data =
                                   DeInterleave(f.samples, f.channels)]

\* AudioPlayer::get_current_time at clock t
GetCurrentTime(p, t) ==
    IF p.is_paused THEN p.elapsed_when_paused
    ELSE IF p.start_time.some
         THEN p.elapsed_when_paused + (t - p.start_time.v)
         ELSE 0

\* a channel window that is not resized to the window size
ChannelWindowUnpadded(chan, start_sample, window_size) ==
    IF start_sample < Len(chan)
    THEN SubSeq(chan, start_sample + 1,
                Min(start_sample + window_size, Len(chan)))
    ELSE Zeros(window_size)

\* the body of get_window's loop for one channel
ChannelWindow(chan, start_sample, window_size) ==
    IF start_sample < Len(chan)
    THEN LET end == Min(start_sample + window_size, Len(chan))
             w == SubSeq(chan, start_sample + 1, end)
         IN  IF Len(w) < window_size
             THEN w \o Zeros(window_size - Len(w))
             ELSE w
    ELSE Zeros(window_size)

\* a get_window that reads the audio data while the player is paused
GetWindowWhilePaused(p, t, window_size) ==
    IF p.is_streaming_mode
    THEN [c \in 1..p.channels |-> Zeros(window_size)]
    ELSE LET start_sample == GetCurrentTime(p, t) * p.sample_rate
         IN  IF Len(p.audio_data) = 0 \/ Len(p.audio_data[1]) = 0
             THEN [c \in 1..p.channels |-> Zeros(window_size)]
             ELSE [c \in 1..p.channels |->
                      ChannelWindow(p.audio_data[c], start_sample, window_size)]

\* AudioPlayer::get_window at clock t
GetWindow(p, t, window_size) ==
    IF p.is_paused \/ p.is_streaming_mode
    THEN [c \in 1..p.channels |-> Zeros(window_size)]
    ELSE LET start_sample == GetCurrentTime(p, t) * p.sample_rate
         IN  IF Len(p.audio_data) = 0 \/ Len(p.audio_data[1]) = 0
             THEN [c \in 1..p.channels |-> Zeros(window_size)]
             ELSE [c \in 1..p.channels |->
                      ChannelWindow(p.audio_data[c], start_sample, window_size)]

\* a toggle_pause that drops the time played so far when it pauses
TogglePauseForgetting(p, t) ==
    IF ~p.has_sink THEN p
    ELSE IF p.is_paused
         THEN [p EXCEPT !.sink_state = "playing",
                        !.is_paused = FALSE,
                        !.start_time = Some(t)]
         ELSE [p EXCEPT !.sink_state = "paused",
                        !.is_paused = TRUE,
                        !.start_time = None]

\* AudioPlayer::toggle_pause at clock t
TogglePause(p, t) ==
    IF ~p.has_sink THEN p
    ELSE IF p.is_paused
         THEN [p EXCEPT !.sink_state = "playing",
                        !.is_paused = FALSE,
                        !.start_time = Some(t)]
         ELSE [p EXCEPT !.sink_state = "paused",
                        !.is_paused = TRUE,
                        !.elapsed_when_paused =
                            IF p.start_time.some
                            THEN @ + (t - p.start_time.v) ELSE @,
                        !.start_time = None]

(* ================= the application: the oscilloscope =================== *)
(* scope/display/oscilloscope.rs: process is modelled from                 *)
(* the description of the render engine.                                   *)

\* the most recent min(samples, length) samples of a channel
TrailingWindow(chan, n) == SubSeq(chan, Len(chan) - n + 1, Len(chan))

\* the time-domain datasets of a Matrix: one per channel, point i at
\* x = i * width / n (kept as numerator and denominator), y = sample * scale
ComputeDatasets(cfg, matrix) ==
    [c \in 1..Len(matrix) |->
        LET n == Min(cfg.samples, Len(matrix[1]))
            w == TrailingWindow(matrix[c], Min(n, Len(matrix[c])))
        IN  [channel |-> c,
             scatter |-> cfg.scatter,
             xden |-> n,
             points |-> [i \in 1..Len(w) |->
                            <<(i - 1) * cfg.width, w[i] * cfg.scale>>]]]

\* a vectorscope that pairs every channel with its successor, the last
\* channel of an odd count with silence
VectorDatasetsSliding(cfg, matrix) ==
    [k \in 1..((Len(matrix) + 1) \div 2) |->
        LET n == Min(cfg.samples, Len(matrix[1]))
            xs == TrailingWindow(matrix[2 * k - 1],
                                 Min(n, Len(matrix[2 * k - 1])))
            ys == IF 2 * k <= Len(matrix)
                  THEN TrailingWindow(matrix[2 * k], Min(n, Len(matrix[2 * k])))
                  ELSE Zeros(Len(xs))
        IN  [channel |-> k,
             scatter |-> cfg.scatter,
             xden |-> 1,
             points |-> [i \in 1..Min(Len(xs), Len(ys)) |->
                            <<xs[i] * cfg.scale, ys[i] * cfg.scale>>]]]

\* the vectorscope datasets of a Matrix: one per adjacent channel pair
\* (2k, 2k+1) counting channels from 0, point i at x = the first channel's
\* sample * scale, y = the second channel's sample * scale; a last channel
\* without a partner gives no dataset
VectorDatasets(cfg, matrix) ==
    [k \in 1..(Len(matrix) \div 2) |->
        LET n == Min(cfg.samples, Len(matrix[1]))
            xs == TrailingWindow(matrix[2 * k - 1],
                                 Min(n, Len(matrix[2 * k - 1])))
            ys == TrailingWindow(matrix[2 * k], Min(n, Len(matrix[2 * k])))
        IN  [channel |-> k,
             scatter |-> cfg.scatter,
             xden |-> 1,
             points |-> [i \in 1..Min(Len(xs), Len(ys)) |->
                            <<xs[i] * cfg.scale, ys[i] * cfg.scale>>]]]

\* an engine that recomputes also while paused
ProcessIgnoringPause(cfg, matrix, retained) == ComputeDatasets(cfg, matrix)

\* Oscilloscope::process: while cfg.pause holds, the retained dataset list
ProcessFrame(cfg, matrix, retained) ==
    IF cfg.pause THEN retained ELSE ComputeDatasets(cfg, matrix)

\* the display modes: amplitude over time, and channel pairs as X/Y
DisplayModes == {"oscilloscope", "vectorscope"}

\* a process whose amplitudes stay within the range of the largest scale
ProcessClamping(mode, cfg, matrix, retained) ==
    IF mode = "vectorscope"
    THEN (IF cfg.pause THEN retained
          ELSE VectorDatasets([cfg EXCEPT !.scale = Min(@, 10 * InitScale)],
                              matrix))
    ELSE ProcessFrame([cfg EXCEPT !.scale = Min(@, 10 * InitScale)],
                      matrix, retained)

\* process(config, matrix) of the display mode in use
Process(mode, cfg, matrix, retained) ==
    IF mode = "vectorscope"
    THEN (IF cfg.pause THEN retained ELSE VectorDatasets(cfg, matrix))
    ELSE ProcessFrame(cfg, matrix, retained)

(* ================= the application: run_app ============================ *)

VARIABLES
    lpc,            \* position in run_app's loop: draw, events, input, quit
    now,            \* the clock (Instant::now), in ticks
    current_tab,
    input_mode,
    search_input,   \* the characters typed into the search box
    cursor_position,
    is_loading,
    loading_status,
    search_results,
    search_selected,\* search_results_state.selected()
    graph_config,
    player,
    datasets,       \* the dataset list the oscilloscope produced last
    played,         \* the samples play_file decoded last (its local `samples`)
    fed,            \* the Matrix the last process call was given, if it was paused
    frozen_over,    \* the last two process calls were paused, on different data
    event_q,        \* the channel event_tx -> event_rx
    downloads,      \* the requests whose download thread is running
    searches,       \* the requests whose search thread is running
    cache_file,     \* the contents of stream_cache.mp3
    radio_selected, \* radio_state.selected(), an index into radio_stations
    display         \* the display mode the frame is processed by

appVars == <<lpc, now, current_tab, input_mode, search_input,
             cursor_position, is_loading,
             loading_status, search_results, search_selected, graph_config,
             player, datasets, played, fed, frozen_over, event_q, downloads,
             searches, cache_file, radio_selected, display>>

vars == <<scopeVars, appVars>>

InitGraphConfig ==
    [samples |-> InitSamples, width |-> InitWidth, scale |-> InitScale,
     pause |-> FALSE, scatter |-> FALSE]

AppStart(has_sink) ==
    /\ lpc = "draw"
    /\ now = 0
    /\ current_tab = RadioTab
    /\ input_mode = "Normal"
    /\ search_input = <<>>
    /\ cursor_position = 0
    /\ is_loading = FALSE
    /\ loading_status = None
    /\ search_results = <<>>
    /\ search_selected = None
    /\ graph_config = InitGraphConfig
    /\ player = NewPlayer(has_sink)
    /\ datasets = <<>>
    /\ played = None
    /\ fed = None
    /\ frozen_over = FALSE
    /\ event_q = <<>>
    /\ downloads = {}
    /\ searches = {}
    /\ cache_file = NoFile
    /\ radio_selected = InitStation
    /\ display = "oscilloscope"

\* the application is not running (the scope-tui specification)
AppParked == AppStart(TRUE)

\* the scope-tui pipeline is not running (the application's specification)
ScopeParked ==
    /\ spc = "off"
    /\ opts = [channels |-> 2, buffer |-> 0, sample_rate |-> 8000,
               tune |-> None]
    /\ opts_in = opts
    /\ fs_channels = 0
    /\ fs_buffer = <<>>
    /\ file_data = <<>>
    /\ file_pos = 0
    /\ read_so_far = 0
    /\ read_from = 0
    /\ read_failed = FALSE
    /\ parse_chunks = <<>>
    /\ recv_result = None
    /\ nrecv = 0

\* App::new: the audio device may or may not give a sink
Init ==
    /\ ScopeParked
    /\ \E has_sink \in BOOLEAN : AppStart(has_sink)

\* The characters a key press can carry into a text: "H" stands for the
\* prefix http:// (or https://) of a URL, "x" for any other character.
InputChars == {"H", "x"}

\* `query.starts_with("http://") || query.starts_with("https://")`
IsUrl(text) == Len(text) > 0 /\ text[1] = "H"

\* requests whose event the loop has not taken from the channel yet
RequestIds == 1..MaxPending

\* the requests a thread is running for or an event is in the channel of
InUse == downloads \cup searches
             \cup {event_q[i].req : i \in 1..Len(event_q)}

Pending == Cardinality(InUse)

\* the name the next request is told apart by
FreshId == CHOOSE r \in RequestIds \ InUse :
               \A q \in RequestIds \ InUse : r <= q

\* time passes
Tick ==
    /\ lpc # "quit"
    /\ now < MaxClock
    /\ now' = now + 1
    /\ UNCHANGED <<lpc, current_tab, input_mode, search_input,
                   cursor_position, is_loading, loading_status,
                   search_results, search_selected, graph_config, player,
                   datasets, played, fed, frozen_over, event_q, downloads,
                   searches, cache_file>>
    /\ UNCHANGED <<radio_selected, display, scopeVars>>

\* ui::layout::draw: the search tab (2) and the playlist tab (1) draw no
\* scope; every other tab asks the player for a window and processes it
Draw ==
    /\ lpc = "draw"
    /\ lpc' = "events"
    /\ \/ /\ current_tab \in {1, 2}
          /\ UNCHANGED <<datasets, fed, frozen_over>>
       \/ /\ current_tab \notin {1, 2}
          /\ LET data == GetWindow(player, now, graph_config.samples)
             IN  /\ datasets' = Process(display, graph_config, data,
                                        datasets)
                 /\ fed' = IF graph_config.pause THEN Some(data) ELSE None
                 /\ frozen_over' = /\ graph_config.pause
                                   /\ fed.some
                                   /\ fed.v # data
    /\ UNCHANGED <<now, current_tab, input_mode, search_input,
                   cursor_position, is_loading, loading_status,
                   search_results, search_selected, graph_config, player,
                   played, event_q, downloads, searches, cache_file>>
    /\ UNCHANGED <<radio_selected, display, scopeVars>>

\* try_recv finds the channel empty
RecvNothing ==
    /\ lpc = "events"
    /\ event_q = <<>>
    /\ lpc' = "input"
    /\ UNCHANGED <<now, current_tab, input_mode, search_input,
                   cursor_position, is_loading, loading_status,
                   search_results, search_selected, graph_config, player,
                   datasets, played, fed, frozen_over, event_q, downloads,
                   searches, cache_file>>
    /\ UNCHANGED <<radio_selected, display, scopeVars>>

\* an AudioLoaded handler that stays on the tab the program is on
RecvAudioLoadedStaying ==
    /\ lpc = "events"
    /\ event_q # <<>>
    /\ Head(event_q).type = "AudioLoaded"
    /\ event_q' = Tail(event_q)
    /\ lpc' = "input"
    /\ is_loading' = FALSE
    /\ \E reopen_ok \in BOOLEAN, sink_ok \in BOOLEAN :
          player' = PlayFile(player, cache_file, now, reopen_ok, sink_ok)
    /\ played' = IF player.has_sink /\ cache_file.kind = "audio"
                    /\ ~cache_file.big
                 THEN Some(cache_file.samples) ELSE played
    /\ loading_status' = Some("Playing URL")
    /\ UNCHANGED <<now, current_tab, input_mode, search_input, cursor_position,
                   search_results, search_selected, graph_config, datasets,
                   fed, frozen_over, downloads, searches, cache_file>>
    /\ UNCHANGED <<radio_selected, display, scopeVars>>

\* AppEvent::AudioLoaded(path): play the cache file, switch to the radio tab
RecvAudioLoaded ==
    /\ lpc = "events"
    /\ event_q # <<>>
    /\ Head(event_q).type = "AudioLoaded"
    /\ event_q' = Tail(event_q)
    /\ lpc' = "input"
    /\ is_loading' = FALSE
    /\ \E reopen_ok \in BOOLEAN, sink_ok \in BOOLEAN :
          player' = PlayFile(player, cache_file, now, reopen_ok, sink_ok)
    /\ played' = IF player.has_sink /\ cache_file.kind = "audio"
                    /\ ~cache_file.big
                 THEN Some(cache_file.samples) ELSE played
    /\ loading_status' = Some("Playing URL")
    /\ current_tab' = RadioTab
    /\ UNCHANGED <<now, input_mode, search_input, cursor_position,
                   search_results, search_selected, graph_config, datasets,
                   fed, frozen_over, downloads, searches, cache_file>>
    /\ UNCHANGED <<radio_selected, display, scopeVars>>

\* AppEvent::AudioError(e)
RecvAudioError ==
    /\ lpc = "events"
    /\ event_q # <<>>
    /\ Head(event_q).type = "AudioError"
    /\ event_q' = Tail(event_q)
    /\ lpc' = "input"
    /\ is_loading' = FALSE
    /\ loading_status' = Some("Error")
    /\ UNCHANGED <<now, current_tab, input_mode, search_input,
                   cursor_position, search_results, search_selected,
                   graph_config, player, datasets, played, fed, frozen_over,
                   downloads, searches, cache_file>>
    /\ UNCHANGED <<radio_selected, display, scopeVars>>

\* a SearchFinished handler that keeps the selection of the old results
RecvSearchFinishedKeeping ==
    /\ lpc = "events"
    /\ event_q # <<>>
    /\ Head(event_q).type = "SearchFinished"
    /\ event_q' = Tail(event_q)
    /\ lpc' = "input"
    /\ is_loading' = FALSE
    /\ search_results' = Head(event_q).results
    /\ loading_status' = Some("Found results")
    /\ input_mode' = IF Head(event_q).results # <<>>
                      THEN "SearchResults" ELSE "Normal"
    /\ UNCHANGED <<now, current_tab, search_input, cursor_position,
                   search_selected, graph_config, player, datasets, played,
                   fed, frozen_over, downloads, searches, cache_file>>
    /\ UNCHANGED <<radio_selected, display, scopeVars>>

\* AppEvent::SearchFinished(results)
RecvSearchFinished ==
    /\ lpc = "events"
    /\ event_q # <<>>
    /\ Head(event_q).type = "SearchFinished"
    /\ event_q' = Tail(event_q)
    /\ lpc' = "input"
    /\ is_loading' = FALSE
    /\ search_results' = Head(event_q).results
    /\ loading_status' = Some("Found results")
    /\ IF Head(event_q).results # <<>>
       THEN /\ search_selected' = Some(0)
            /\ input_mode' = "SearchResults"
       ELSE /\ input_mode' = "Normal"
            /\ UNCHANGED search_selected
    /\ UNCHANGED <<now, current_tab, search_input, cursor_position,
                   graph_config, player, datasets, played, fed, frozen_over,
                   downloads, searches, cache_file>>
    /\ UNCHANGED <<radio_selected, display, scopeVars>>

\* AppEvent::SearchError(e)
RecvSearchError ==
    /\ lpc = "events"
    /\ event_q # <<>>
    /\ Head(event_q).type = "SearchError"
    /\ event_q' = Tail(event_q)
    /\ lpc' = "input"
    /\ is_loading' = FALSE
    /\ loading_status' = Some("Search Error")
    /\ input_mode' = "Normal"
    /\ UNCHANGED <<now, current_tab, search_input, cursor_position,
                   search_results, search_selected, graph_config, player,
                   datasets, played, fed, frozen_over, downloads, searches,
                   cache_file>>
    /\ UNCHANGED <<radio_selected, display, scopeVars>>

\* event::poll(16 ms) returns false, or the event is no key
PollNothing ==
    /\ lpc = "input"
    /\ lpc' = "draw"
    /\ UNCHANGED <<now, current_tab, input_mode, search_input,
                   cursor_position, is_loading, loading_status,
                   search_results, search_selected, graph_config, player,
                   datasets, played, fed, frozen_over, event_q, downloads,
                   searches, cache_file>>
    /\ UNCHANGED <<radio_selected, display, scopeVars>>

\* Normal mode, '/' on the search tab
KeySlash ==
    /\ lpc = "input"
    /\ input_mode = "Normal"
    /\ current_tab = 2
    /\ input_mode' = "Editing"
    /\ lpc' = "draw"
    /\ UNCHANGED <<now, current_tab, search_input, cursor_position,
                   is_loading, loading_status, search_results,
                   search_selected, graph_config, player, datasets, played,
                   fed, frozen_over, event_q, downloads, searches,
                   cache_file>>
    /\ UNCHANGED <<radio_selected, display, scopeVars>>

\* a 'q' that ends the loop in every mode
KeyQuitAnyMode ==
    /\ lpc = "input"
    /\ lpc' = "quit"
    /\ now' = 0
    /\ current_tab' = RadioTab
    /\ input_mode' = "Normal"
    /\ search_input' = <<>>
    /\ cursor_position' = 0
    /\ is_loading' = FALSE
    /\ loading_status' = None
    /\ search_results' = <<>>
    /\ search_selected' = None
    /\ graph_config' = InitGraphConfig
    /\ player' = NewPlayer(FALSE)
    /\ datasets' = <<>>
    /\ played' = None
    /\ fed' = None
    /\ frozen_over' = FALSE
    /\ event_q' = <<>>
    /\ downloads' = {}
    /\ searches' = {}
    /\ cache_file' = NoFile
    /\ radio_selected' = InitStation
    /\ UNCHANGED <<display, scopeVars>>

\* Normal mode, 'q': return Ok(()); run_app's App is dropped
KeyQuit ==
    /\ lpc = "input"
    /\ input_mode = "Normal"
    /\ lpc' = "quit"
    /\ now' = 0
    /\ current_tab' = RadioTab
    /\ input_mode' = "Normal"
    /\ search_input' = <<>>
    /\ cursor_position' = 0
    /\ is_loading' = FALSE
    /\ loading_status' = None
    /\ search_results' = <<>>
    /\ search_selected' = None
    /\ graph_config' = InitGraphConfig
    /\ player' = NewPlayer(FALSE)
    /\ datasets' = <<>>
    /\ played' = None
    /\ fed' = None
    /\ frozen_over' = FALSE
    /\ event_q' = <<>>
    /\ downloads' = {}
    /\ searches' = {}
    /\ cache_file' = NoFile
    /\ radio_selected' = InitStation
    /\ UNCHANGED <<display, scopeVars>>

\* Normal mode, ' ' on the radio tab: toggle the display and the player
KeySpace ==
    /\ lpc = "input"
    /\ input_mode = "Normal"
    /\ current_tab = RadioTab
    /\ graph_config' = [graph_config EXCEPT !.pause = ~@]
    /\ player' = TogglePause(player, now)
    /\ lpc' = "draw"
    /\ UNCHANGED <<now, current_tab, input_mode, search_input,
                   cursor_position, is_loading, loading_status,
                   search_results, search_selected, datasets, played, fed,
                   frozen_over, event_q, downloads, searches, cache_file>>
    /\ UNCHANGED <<radio_selected, display, scopeVars>>

\* Normal mode, Right without Shift, or Tab: App::next_tab
KeyNextTab ==
    /\ lpc = "input"
    /\ input_mode = "Normal"
    /\ current_tab' = (current_tab + 1) % TabCount
    /\ lpc' = "draw"
    /\ UNCHANGED <<now, input_mode, search_input, cursor_position,
                   is_loading, loading_status, search_results,
                   search_selected, graph_config, player, datasets, played,
                   fed, frozen_over, event_q, downloads, searches,
                   cache_file>>
    /\ UNCHANGED <<radio_selected, display, scopeVars>>

\* Normal mode, Left without Shift: App::previous_tab
KeyPreviousTab ==
    /\ lpc = "input"
    /\ input_mode = "Normal"
    /\ current_tab' = IF current_tab = 0 THEN 4 ELSE current_tab - 1
    /\ lpc' = "draw"
    /\ UNCHANGED <<now, input_mode, search_input, cursor_position,
                   is_loading, loading_status, search_results,
                   search_selected, graph_config, player, datasets, played,
                   fed, frozen_over, event_q, downloads, searches,
                   cache_file>>
    /\ UNCHANGED <<radio_selected, display, scopeVars>>

\* App::clamp_cursor
ClampCursor(pos, text) == IF pos > Len(text) THEN Len(text) ELSE pos

\* String::insert(idx, ch)
InsertAt(text, idx, ch) ==
    SubSeq(text, 1, idx) \o <<ch>> \o SubSeq(text, idx + 1, Len(text))

\* Editing mode, a character of `chars` while the text is shorter than
\* `most`: App::enter_char
EditCharWithin(chars, most) ==
    /\ lpc = "input"
    /\ input_mode = "Editing"
    /\ Len(search_input) < most
    /\ \E c \in chars :
          /\ search_input' = InsertAt(search_input, cursor_position, c)
          /\ cursor_position' =
                ClampCursor(cursor_position + 1,
                            InsertAt(search_input, cursor_position, c))
    /\ lpc' = "draw"
    /\ UNCHANGED <<now, current_tab, input_mode, is_loading, loading_status,
                   search_results, search_selected, graph_config, player,
                   datasets, played, fed, frozen_over, event_q, downloads,
                   searches, cache_file>>
    /\ UNCHANGED <<radio_selected, display, scopeVars>>

EditCharOf(chars) == EditCharWithin(chars, MaxInput)

EditChar == EditCharOf(InputChars)

\* Editing mode, Backspace: App::delete_char
EditBackspace ==
    /\ lpc = "input"
    /\ input_mode = "Editing"
    /\ IF cursor_position # 0
       THEN LET text == SubSeq(search_input, 1, cursor_position - 1)
                        \o SubSeq(search_input, cursor_position + 1,
                                  Len(search_input))
            IN  /\ search_input' = text
                /\ cursor_position' = ClampCursor(cursor_position - 1, text)
       ELSE UNCHANGED <<search_input, cursor_position>>
    /\ lpc' = "draw"
    /\ UNCHANGED <<now, current_tab, input_mode, is_loading, loading_status,
                   search_results, search_selected, graph_config, player,
                   datasets, played, fed, frozen_over, event_q, downloads,
                   searches, cache_file>>
    /\ UNCHANGED <<radio_selected, display, scopeVars>>

\* Editing mode, Left and Right: move_cursor_left, move_cursor_right
EditMoveCursor ==
    /\ lpc = "input"
    /\ input_mode = "Editing"
    /\ \/ cursor_position' =
             ClampCursor(IF cursor_position = 0 THEN 0
                         ELSE cursor_position - 1, search_input)
       \/ cursor_position' = ClampCursor(cursor_position + 1, search_input)
    /\ lpc' = "draw"
    /\ UNCHANGED <<now, current_tab, input_mode, search_input, is_loading,
                   loading_status, search_results, search_selected,
                   graph_config, player, datasets, played, fed, frozen_over,
                   event_q, downloads, searches, cache_file>>
    /\ UNCHANGED <<radio_selected, display, scopeVars>>

\* Editing mode, Esc
EditEsc ==
    /\ lpc = "input"
    /\ input_mode = "Editing"
    /\ input_mode' = "Normal"
    /\ lpc' = "draw"
    /\ UNCHANGED <<now, current_tab, search_input, cursor_position,
                   is_loading, loading_status, search_results,
                   search_selected, graph_config, player, datasets, played,
                   fed, frozen_over, event_q, downloads, searches,
                   cache_file>>
    /\ UNCHANGED <<radio_selected, display, scopeVars>>

\* an Enter that leaves the text and the cursor as they are
EditEnterKeepingText ==
    /\ lpc = "input"
    /\ input_mode = "Editing"
    /\ Pending < MaxPending
    /\ is_loading' = TRUE
    /\ IF IsUrl(search_input)
       THEN /\ loading_status' = Some("Downloading URL")
            /\ downloads' = downloads \cup {FreshId}
            /\ input_mode' = "Normal"
            /\ UNCHANGED searches
       ELSE /\ loading_status' = Some("Searching")
            /\ searches' = searches \cup {FreshId}
            /\ UNCHANGED <<downloads, input_mode>>
    /\ lpc' = "draw"
    /\ UNCHANGED <<now, current_tab, search_input, cursor_position,
                   search_results, search_selected, graph_config, player,
                   datasets, played, fed, frozen_over, event_q, cache_file>>
    /\ UNCHANGED <<radio_selected, display, scopeVars>>

\* Editing mode, Enter: a URL is downloaded, anything else is searched for
EditEnter ==
    /\ lpc = "input"
    /\ input_mode = "Editing"
    /\ Pending < MaxPending
    /\ is_loading' = TRUE
    /\ search_input' = <<>>
    /\ cursor_position' = 0
    /\ IF IsUrl(search_input)
       THEN /\ loading_status' = Some("Downloading URL")
            /\ downloads' = downloads \cup {FreshId}   \* load_source_async
            /\ input_mode' = "Normal"
            /\ UNCHANGED searches
       ELSE /\ loading_status' = Some("Searching")
            /\ searches' = searches \cup {FreshId}     \* search_async
            /\ UNCHANGED <<downloads, input_mode>>
    /\ lpc' = "draw"
    /\ UNCHANGED <<now, current_tab, search_results, search_selected,
                   graph_config, player, datasets, played, fed, frozen_over,
                   event_q, cache_file>>
    /\ UNCHANGED <<radio_selected, display, scopeVars>>

\* SearchResults mode, Down and Up: next_search_result, previous_search_result
ResultsMove ==
    /\ lpc = "input"
    /\ input_mode = "SearchResults"
    /\ IF search_results = <<>>
       THEN UNCHANGED search_selected
       ELSE \/ search_selected' =
                 Some(IF search_selected.some
                      THEN IF search_selected.v >= Len(search_results) - 1
                           THEN 0 ELSE search_selected.v + 1
                      ELSE 0)
            \/ search_selected' =
                 Some(IF search_selected.some
                      THEN IF search_selected.v = 0
                           THEN Len(search_results) - 1
                           ELSE search_selected.v - 1
                      ELSE 0)
    /\ lpc' = "draw"
    /\ UNCHANGED <<now, current_tab, input_mode, search_input,
                   cursor_position, is_loading, loading_status,
                   search_results, graph_config, player, datasets, played,
                   fed, frozen_over, event_q, downloads, searches,
                   cache_file>>
    /\ UNCHANGED <<radio_selected, display, scopeVars>>

\* SearchResults mode, Esc
ResultsEsc ==
    /\ lpc = "input"
    /\ input_mode = "SearchResults"
    /\ input_mode' = "Normal"
    /\ search_results' = <<>>
    /\ lpc' = "draw"
    /\ UNCHANGED <<now, current_tab, search_input, cursor_position,
                   is_loading, loading_status, search_selected, graph_config,
                   player, datasets, played, fed, frozen_over, event_q,
                   downloads, searches, cache_file>>
    /\ UNCHANGED <<radio_selected, display, scopeVars>>

\* SearchResults mode, Enter: download the selected track
ResultsEnter ==
    /\ lpc = "input"
    /\ input_mode = "SearchResults"
    /\ Pending < MaxPending
    /\ IF search_selected.some /\ search_selected.v < Len(search_results)
       THEN /\ loading_status' = Some("Downloading")
            /\ is_loading' = TRUE
            /\ downloads' = downloads \cup {FreshId}   \* load_source_async
            /\ input_mode' = "Normal"
       ELSE UNCHANGED <<loading_status, is_loading, downloads, input_mode>>
    /\ lpc' = "draw"
    /\ UNCHANGED <<now, current_tab, search_input, cursor_position,
                   search_results, search_selected, graph_config, player,
                   datasets, played, fed, frozen_over, event_q, searches,
                   cache_file>>
    /\ UNCHANGED <<radio_selected, display, scopeVars>>

(* ----------------- key events in Normal mode -------------------------- *)

\* KeyModifiers of a key event, and the key codes told apart ("x" is any
\* key without a binding)
Modifiers == SUBSET {"SHIFT", "CONTROL", "ALT"}

KeyCodes == {"Up", "Down", "Left", "Right", "Tab", "Enter", "/", "q", "s",
             " ", "+", "-", "p", "r", "x"}

Keys == [code : KeyCodes, mods : Modifiers]

\* `match key.modifiers`: the magnitude, in fifths (10.0, 5.0, 0.2, 1.0)
Magnitude(mods) ==
    IF mods = {"SHIFT"} THEN 50
    ELSE IF mods = {"CONTROL"} THEN 25
    ELSE IF mods = {"ALT"} THEN 1
    ELSE 5

\* a dispatch whose plain arrow arms come without their `!contains(SHIFT)`
NormalKeyArmUnguarded(key, tab) ==
    LET shift == "SHIFT" \in key.mods
        c == key.code
    IN  IF c = "/" /\ tab = 2 THEN "slash"
        ELSE IF c = "q" THEN "quit"
        ELSE IF c = "Up" /\ shift /\ tab = RadioTab THEN "scale_up"
        ELSE IF c = "Down" /\ shift /\ tab = RadioTab THEN "scale_down"
        ELSE IF c = "Right" /\ shift /\ tab = RadioTab THEN "window_up"
        ELSE IF c = "Left" /\ shift /\ tab = RadioTab THEN "window_down"
        ELSE IF c = "s" /\ tab = RadioTab THEN "scatter"
        ELSE IF c = " " /\ tab = RadioTab THEN "pause"
        ELSE IF c = "+" THEN "volume_up"
        ELSE IF c = "-" THEN "volume_down"
        ELSE IF c = "Down" THEN "next_station"
        ELSE IF c = "Up" THEN "previous_station"
        ELSE IF c = "Left" THEN "previous_tab"
        ELSE IF c = "Right" THEN "next_tab"
        ELSE IF c = "Tab" THEN "next_tab"
        ELSE IF c = "p" /\ tab = 5 THEN "playlist_name"
        ELSE IF c = "Enter" /\ tab = 5 THEN "playlist_open"
        ELSE IF c = "r" /\ tab = 5 THEN "playlist_refresh"
        ELSE "none"

\* `match key.code` of Normal mode: the first arm, in the order of the
\* source, whose pattern and guard the key event meets
NormalKeyArm(key, tab) ==
    LET shift == "SHIFT" \in key.mods
        c == key.code
    IN  IF c = "/" /\ tab = 2 THEN "slash"
        ELSE IF c = "q" THEN "quit"
        ELSE IF c = "Up" /\ shift /\ tab = RadioTab THEN "scale_up"
        ELSE IF c = "Down" /\ shift /\ tab = RadioTab THEN "scale_down"
        ELSE IF c = "Right" /\ shift /\ tab = RadioTab THEN "window_up"
        ELSE IF c = "Left" /\ shift /\ tab = RadioTab THEN "window_down"
        ELSE IF c = "s" /\ tab = RadioTab THEN "scatter"
        ELSE IF c = " " /\ tab = RadioTab THEN "pause"
        ELSE IF c = "+" THEN "volume_up"
        ELSE IF c = "-" THEN "volume_down"
        ELSE IF c = "Down" /\ ~shift THEN "next_station"
        ELSE IF c = "Up" /\ ~shift THEN "previous_station"
        ELSE IF c = "Left" /\ ~shift THEN "previous_tab"
        ELSE IF c = "Right" /\ ~shift THEN "next_tab"
        ELSE IF c = "Tab" THEN "next_tab"
        ELSE IF c = "p" /\ tab = 5 THEN "playlist_name"
        ELSE IF c = "Enter" /\ tab = 5 THEN "playlist_open"
        ELSE IF c = "r" /\ tab = 5 THEN "playlist_refresh"
        ELSE "none"

\* the step 0.01 of a scale adjustment, and the end 10.0 of its range
ScaleStep == 5
ScaleEnd == 5000

\* the step 25 of a window adjustment
WindowStep == 25

\* a window range twice as wide as the source's
WindowEndDoubled(cfg) == cfg.width * 4

\* `0..app.graph_config.width * 2`: the end of the window range
WindowEnd(cfg) == cfg.width * 2

\* update_value_f (scope/display, from its specification): val moved by
\* base * magnitude and clamped to [lo, hi]
UpdateValueF(val, base, magnitude, lo, hi) ==
    LET moved == val + (base * magnitude) \div 5
    IN  IF moved > hi THEN hi ELSE IF moved < lo THEN lo ELSE moved

\* update_value_i (scope/display, from its specification): val moved up or
\* down by base * magnitude and clamped to the half-open range [lo, end)
UpdateValueI(val, inc, base, magnitude, lo, end) ==
    LET delta == (base * magnitude) \div 5
        moved == IF inc THEN val + delta ELSE val - delta
    IN  IF moved > end - 1 THEN end - 1 ELSE IF moved < lo THEN lo ELSE moved

searchVars == <<search_input, cursor_position, is_loading, loading_status,
                search_results, search_selected>>

asyncVars == <<event_q, downloads, searches, cache_file>>

ghostVars == <<played, fed, frozen_over>>

\* Normal mode, Shift+Up / Shift+Down on the radio tab: update_value_f on
\* graph_config.scale
KeyScale ==
    /\ lpc = "input"
    /\ input_mode = "Normal"
    /\ \E key \in Keys :
          LET arm == NormalKeyArm(key, current_tab)
          IN  /\ arm \in {"scale_up", "scale_down"}
              /\ graph_config' =
                   [graph_config EXCEPT !.scale =
                       UpdateValueF(@, IF arm = "scale_up" THEN ScaleStep
                                       ELSE -ScaleStep,
                                    Magnitude(key.mods), 0, ScaleEnd)]
    /\ lpc' = "draw"
    /\ UNCHANGED <<now, current_tab, input_mode, searchVars, player,
                   datasets, ghostVars, asyncVars, radio_selected,
                   display>>
    /\ UNCHANGED scopeVars

\* Normal mode, Shift+Right / Shift+Left on the radio tab: update_value_i
\* on graph_config.samples
KeyWindow ==
    /\ lpc = "input"
    /\ input_mode = "Normal"
    /\ \E key \in Keys :
          LET arm == NormalKeyArm(key, current_tab)
          IN  /\ arm \in {"window_up", "window_down"}
              /\ graph_config' =
                   [graph_config EXCEPT !.samples =
                       UpdateValueI(@, arm = "window_up", WindowStep,
                                    Magnitude(key.mods), 0,
                                    WindowEnd(graph_config))]
    /\ lpc' = "draw"
    /\ UNCHANGED <<now, current_tab, input_mode, searchVars, player,
                   datasets, ghostVars, asyncVars, radio_selected,
                   display>>
    /\ UNCHANGED scopeVars

\* Normal mode, 's' on the radio tab
KeyScatter ==
    /\ lpc = "input"
    /\ input_mode = "Normal"
    /\ \E key \in Keys : NormalKeyArm(key, current_tab) = "scatter"
    /\ graph_config' = [graph_config EXCEPT !.scatter = ~@]
    /\ lpc' = "draw"
    /\ UNCHANGED <<now, current_tab, input_mode, searchVars, player,
                   datasets, ghostVars, asyncVars, radio_selected,
                   display>>
    /\ UNCHANGED scopeVars

\* AudioPlayer::set_volume(volume + d): only with a sink, clamped to 0..10.0
SetVolume(p, d) ==
    IF ~p.has_sink THEN p
    ELSE [p EXCEPT !.volume = IF @ + d > 100 THEN 100
                              ELSE IF @ + d < 0 THEN 0 ELSE @ + d]

\* Normal mode, '+' / '-': volume_up / volume_down
KeyVolume ==
    /\ lpc = "input"
    /\ input_mode = "Normal"
    /\ \E key \in Keys :
          LET arm == NormalKeyArm(key, current_tab)
          IN  /\ arm \in {"volume_up", "volume_down"}
              /\ player' = SetVolume(player,
                                     IF arm = "volume_up" THEN 1 ELSE -1)
    /\ lpc' = "draw"
    /\ UNCHANGED <<now, current_tab, input_mode, searchVars, graph_config,
                   datasets, ghostVars, asyncVars, radio_selected,
                   display>>
    /\ UNCHANGED scopeVars

\* Normal mode, Down / Up without Shift: next_station / previous_station
KeyStation ==
    /\ lpc = "input"
    /\ input_mode = "Normal"
    /\ \E key \in Keys :
          LET arm == NormalKeyArm(key, current_tab)
          IN  /\ arm \in {"next_station", "previous_station"}
              /\ radio_selected' =
                   IF arm = "next_station"
                   THEN (IF radio_selected >= StationCount - 1 THEN 0
                         ELSE radio_selected + 1)
                   ELSE (IF radio_selected = 0 THEN StationCount - 1
                         ELSE radio_selected - 1)
    /\ lpc' = "draw"
    /\ UNCHANGED <<now, current_tab, input_mode, searchVars, graph_config,
                   player, datasets, ghostVars, asyncVars, display>>
    /\ UNCHANGED scopeVars

\* Normal mode, 'p': PlaylistNameInput when its arm is the one met, and
\* otherwise the arm `_ => {}`
KeyP ==
    /\ lpc = "input"
    /\ input_mode = "Normal"
    /\ \E key \in Keys :
          /\ key.code = "p"
          /\ input_mode' =
               IF NormalKeyArm(key, current_tab) = "playlist_name"
               THEN "PlaylistNameInput" ELSE input_mode
    /\ lpc' = "draw"
    /\ UNCHANGED <<now, current_tab, searchVars, graph_config, player,
                   datasets, ghostVars, asyncVars, radio_selected,
                   display>>
    /\ UNCHANGED scopeVars

\* Normal mode, a key event that meets no arm: `_ => {}`
KeyIgnored ==
    /\ lpc = "input"
    /\ input_mode = "Normal"
    /\ \E key \in Keys : NormalKeyArm(key, current_tab) = "none"
    /\ lpc' = "draw"
    /\ UNCHANGED <<now, current_tab, input_mode, searchVars, graph_config,
                   player, datasets, ghostVars, asyncVars, radio_selected,
                   display>>
    /\ UNCHANGED scopeVars

\* SearchResults mode, a key event that meets no arm: `_ => {}`
ResultsIgnored ==
    /\ lpc = "input"
    /\ input_mode = "SearchResults"
    /\ lpc' = "draw"
    /\ UNCHANGED <<now, current_tab, input_mode, searchVars, graph_config,
                   player, datasets, ghostVars, asyncVars, radio_selected,
                   display>>
    /\ UNCHANGED scopeVars

\* the modes of InputMode, and the key codes told apart in all of them
InputModes == {"Normal", "Editing", "SearchResults", "PlaylistNameInput",
               "PlaylistNavigation"}

ModeKeys == [code : KeyCodes \cup {"Esc", "Backspace"}, mods : Modifiers]

\* KeyCode::Char(_): the codes that are characters ("x" is a key that is
\* not, such as F1)
CharCodes == {"/", "q", "s", " ", "+", "-", "p", "r"}

\* a dispatch that quits on 'q' in every mode
ModeKeyArmQuitting(mode, key, tab) ==
    IF key.code = "q" THEN "quit" ELSE "none"

\* `match app.input_mode` and the `match key.code` of the mode: the arm the
\* key event meets
ModeKeyArm(mode, key, tab) ==
    LET c == key.code
    IN  IF mode = "Normal" THEN NormalKeyArm(key, tab)
        ELSE IF mode = "PlaylistNameInput"
        THEN IF c = "Enter" THEN "name_enter"
             ELSE IF c = "Esc" THEN "name_esc"
             ELSE IF c = "Backspace" THEN "name_pop"
             ELSE IF c \in CharCodes THEN "name_push"
             ELSE "none"
        ELSE IF mode = "PlaylistNavigation"
        THEN IF c = "Down" THEN "song_next"
             ELSE IF c = "Up" THEN "song_previous"
             ELSE IF c = "Esc" THEN "song_esc"
             ELSE IF c = "Enter" THEN "song_play"
             ELSE "none"
        ELSE IF mode = "Editing"
        THEN IF c = "Enter" THEN "edit_enter"
             ELSE IF c = "Esc" THEN "edit_esc"
             ELSE IF c = "Backspace" THEN "delete_char"
             ELSE IF c = "Left" THEN "move_cursor_left"
             ELSE IF c = "Right" THEN "move_cursor_right"
             ELSE IF c \in CharCodes THEN "enter_char"
             ELSE "none"
        ELSE IF c = "Down" THEN "next_search_result"
             ELSE IF c = "Up" THEN "previous_search_result"
             ELSE IF c = "Esc" THEN "results_esc"
             ELSE IF c = "Enter" THEN "results_enter"
             ELSE "none"

\* a download thread ends: yt-dlp wrote the cache file (one of `files`) and
\* AudioLoaded is sent, or it failed and AudioError is sent
DownloadOf(r, files) ==
    /\ lpc # "quit"
    /\ r \in downloads
    /\ downloads' = downloads \ {r}
    /\ \/ \E f \in files :
             /\ cache_file' = f
             /\ event_q' = Append(event_q, [type |-> "AudioLoaded",
                                             req |-> r, wrote |-> f])
       \/ /\ event_q' = Append(event_q, [type |-> "AudioError", req |-> r])
          /\ UNCHANGED cache_file
    /\ UNCHANGED <<lpc, now, current_tab, input_mode, search_input,
                   cursor_position, is_loading, loading_status,
                   search_results, search_selected, graph_config, player,
                   datasets, played, fed, frozen_over, searches>>
    /\ UNCHANGED <<radio_selected, display, scopeVars>>

DownloadEndsWith(files) == \E r \in RequestIds : DownloadOf(r, files)

DownloadEnds == DownloadEndsWith(AudioFiles)

\* a search thread ends: SearchFinished with its results (`most` at most),
\* or SearchError
SearchOfUpTo(r, most) ==
    /\ lpc # "quit"
    /\ r \in searches
    /\ searches' = searches \ {r}
    /\ \/ \E n \in 0..most :
             event_q' = Append(event_q, [type |-> "SearchFinished",
                                         req |-> r,
                                         results |-> [i \in 1..n |-> i]])
       \/ event_q' = Append(event_q, [type |-> "SearchError", req |-> r])
    /\ UNCHANGED <<lpc, now, current_tab, input_mode, search_input,
                   cursor_position, is_loading, loading_status,
                   search_results, search_selected, graph_config, player,
                   datasets, played, fed, frozen_over, downloads, cache_file>>
    /\ UNCHANGED <<radio_selected, display, scopeVars>>

\* a search thread that ends without sending its event
SearchOfSilent(r) ==
    /\ lpc # "quit"
    /\ r \in searches
    /\ searches' = searches \ {r}
    /\ UNCHANGED <<lpc, now, current_tab, input_mode, search_input,
                   cursor_position, is_loading, loading_status,
                   search_results, search_selected, graph_config, player,
                   datasets, played, fed, frozen_over, event_q, downloads,
                   cache_file>>
    /\ UNCHANGED <<radio_selected, display, scopeVars>>

SearchOf(r) == SearchOfUpTo(r, MaxResults)

SearchEnds == \E r \in RequestIds : SearchOf(r)

Next ==
    \/ Tick
    \/ Draw
    \/ RecvNothing
    \/ RecvAudioLoaded
    \/ RecvAudioError
    \/ RecvSearchFinished
    \/ RecvSearchError
    \/ PollNothing
    \/ KeySlash
    \/ KeyQuit
    \/ KeySpace
    \/ KeyNextTab
    \/ KeyPreviousTab
    \/ KeyScale
    \/ KeyWindow
    \/ KeyScatter
    \/ KeyVolume
    \/ KeyStation
    \/ KeyP
    \/ KeyIgnored
    \/ EditChar
    \/ EditBackspace
    \/ EditMoveCursor
    \/ EditEsc
    \/ EditEnter
    \/ ResultsMove
    \/ ResultsEsc
    \/ ResultsEnter
    \/ DownloadEnds
    \/ SearchEnds

Spec == Init /\ [][Next]_vars

\* The frame loop under the inputs that reach the player and the scope:
\* URLs typed and submitted on the search tab, the pause key, the tab keys;
\* a download leaves one of two files, and a URL is submitted only while
\* nothing is loading.
EditUrlChar == EditCharOf({"H"})

EditEnterUrl == ~is_loading /\ IsUrl(search_input) /\ EditEnter

FrameFiles ==
    {[kind |-> "audio", big |-> FALSE, channels |-> MaxChannels,
      sample_rate |-> 1, samples |-> [i \in 1..MaxSamples |-> i]],
     BadFile}

FrameDownloadEnds == DownloadEndsWith(FrameFiles)

FrameNext ==
    \/ Tick
    \/ Draw
    \/ RecvNothing
    \/ RecvAudioLoaded
    \/ RecvAudioError
    \/ PollNothing
    \/ KeySlash
    \/ KeySpace
    \/ KeyNextTab
    \/ KeyPreviousTab
    \/ EditUrlChar
    \/ EditEnterUrl
    \/ FrameDownloadEnds

FrameSpec == Init /\ [][FrameNext]_vars

\* The background requests: the search box, the result list, the download
\* and search threads and the channel their events come back through.
RequestNext ==
    \/ Draw
    \/ RecvNothing
    \/ RecvAudioLoaded
    \/ RecvAudioError
    \/ RecvSearchFinished
    \/ RecvSearchError
    \/ PollNothing
    \/ KeySlash
    \/ KeyQuit
    \/ KeyPreviousTab
    \/ EditUrlChar
    \/ EditEnter
    \/ ResultsEsc
    \/ ResultsEnter
    \/ FrameDownloadEnds
    \/ SearchEnds

RequestSpec == Init /\ [][RequestNext]_vars

\* The same without a sound device, with the queries typed left out, with
\* no request started while two are outstanding, and with progress: the
\* loop goes on to its next step until 'q' ends it, and every thread
\* started comes to its end (yt-dlp exits).
AtMostTwo == Pending < 2

LoopStep ==
    \/ Draw
    \/ RecvNothing
    \/ RecvAudioLoaded
    \/ RecvAudioError
    \/ RecvSearchFinished
    \/ RecvSearchError
    \/ PollNothing
    \/ KeySlash
    \/ KeyQuit
    \/ KeyPreviousTab
    \/ AtMostTwo /\ EditEnter
    \/ AtMostTwo /\ ResultsEnter

ChannelInit == ScopeParked /\ AppStart(FALSE)

ChannelNext ==
    \/ LoopStep
    \/ FrameDownloadEnds
    \/ SearchEnds

\* a step of the loop is possible exactly until 'q' has ended it
LoopRuns == lpc # "quit"

\* weak fairness of the loop (with ENABLED <<LoopStep>>_vars written as the
\* state predicate LoopRuns it is equivalent to) and of every thread
ChannelSpec ==
    /\ ChannelInit
    /\ [][ChannelNext]_vars
    /\ ([]<>(~LoopRuns) \/ []<><<LoopStep>>_vars)
    /\ \A r \in RequestIds :
          /\ WF_vars(DownloadOf(r, FrameFiles))
          /\ WF_vars(SearchOf(r))

\* The search results: searches and typed URLs, result lists of up to
\* MaxResults + 1 tracks, the keys of the SearchResults mode and the
\* downloads they start, without a sound device and with no request started
\* while two are outstanding.
ResultsSearchEnds == \E r \in RequestIds : SearchOfUpTo(r, MaxResults + 1)

ResultsNext ==
    \/ Draw
    \/ RecvNothing
    \/ RecvAudioLoaded
    \/ RecvAudioError
    \/ RecvSearchFinished
    \/ RecvSearchError
    \/ PollNothing
    \/ KeySlash
    \/ KeyPreviousTab
    \/ EditUrlChar
    \/ AtMostTwo /\ EditEnter
    \/ EditEsc
    \/ ResultsMove
    \/ ResultsEsc
    \/ AtMostTwo /\ ResultsEnter
    \/ FrameDownloadEnds
    \/ ResultsSearchEnds

ResultsSpec == ChannelInit /\ [][ResultsNext]_vars

\* The text being typed: 'q' and another character, up to MaxInput + 1 of
\* them, the cursor, the searches the text starts and the keys of the
\* SearchResults mode that start nothing, without a sound device and with
\* one search at a time.
TypeChar == EditCharWithin({"q", "x"}, MaxInput + 1)

TypingNext ==
    \/ Draw
    \/ RecvNothing
    \/ RecvSearchFinished
    \/ RecvSearchError
    \/ PollNothing
    \/ KeySlash
    \/ KeyQuit
    \/ KeyIgnored
    \/ KeyPreviousTab
    \/ TypeChar
    \/ EditBackspace
    \/ EditMoveCursor
    \/ EditEsc
    \/ InUse = {} /\ EditEnter
    \/ ResultsMove
    \/ ResultsEsc
    \/ ResultsIgnored
    \/ SearchEnds

TypingSpec == ChannelInit /\ [][TypingNext]_vars

\* The frame loop under the scale and window adjustment keys alone.
AdjustNext ==
    \/ Draw
    \/ RecvNothing
    \/ PollNothing
    \/ KeyScale
    \/ KeyWindow

\* App::new on a machine whose audio device gives a sink
AdjustInit == ScopeParked /\ AppStart(TRUE)

AdjustSpec == AdjustInit /\ [][AdjustNext]_vars

\* The frame loop under the Normal-mode keys that change neither the scale,
\* the window nor the volume.
NormalKeyNext ==
    \/ Draw
    \/ RecvNothing
    \/ PollNothing
    \/ KeySlash
    \/ KeySpace
    \/ KeyNextTab
    \/ KeyPreviousTab
    \/ KeyScatter
    \/ KeyStation
    \/ KeyP
    \/ KeyIgnored
    \/ EditEsc

NormalKeySpec == Init /\ [][NormalKeyNext]_vars

\* The render engine alone: a decoded file of up to MaxChannels + 2 channels
\* is playing (samples 1, -2, 3, -4, ..), the scale and the window are
\* values the adjustments can leave behind, and the frame is processed by
\* either display mode as the clock moves the window through the file.
EngineFiles ==
    {[kind |-> "audio", big |-> FALSE, channels |-> c, sample_rate |-> 1,
      samples |-> [i \in 1..n |-> IF i % 2 = 0 THEN 0 - i ELSE i]] :
        c \in 1..(MaxChannels + 2), n \in 0..(MaxSamples + MaxChannels + 2)}

EngineScales == {0, ScaleStep, InitScale, ScaleEnd \div 2, ScaleEnd}

EngineWindows == {0, WindowStep - 1, WindowStep}

EngineInit ==
    /\ ScopeParked
    /\ lpc = "draw"
    /\ now = 0
    /\ current_tab = RadioTab
    /\ input_mode = "Normal"
    /\ search_input = <<>>
    /\ cursor_position = 0
    /\ is_loading = FALSE
    /\ loading_status = None
    /\ search_results = <<>>
    /\ search_selected = None
    /\ \E sc \in EngineScales, w \in EngineWindows :
          graph_config = [InitGraphConfig EXCEPT !.scale = sc, !.samples = w]
    /\ \E f \in EngineFiles :
          /\ player = PlayFile(NewPlayer(TRUE), f, 0, TRUE, TRUE)
          /\ played = Some(f.samples)
          /\ cache_file = f
    /\ datasets = <<>>
    /\ fed = None
    /\ frozen_over = FALSE
    /\ event_q = <<>>
    /\ downloads = {}
    /\ searches = {}
    /\ radio_selected = InitStation
    /\ display \in DisplayModes

EngineNext ==
    \/ Tick
    \/ Draw
    \/ RecvNothing
    \/ PollNothing

EngineSpec == EngineInit /\ [][EngineNext]_vars


\* The AudioPlayer under every sequence of its calls: play_file on any file,
\* toggle_pause, and the passing of time.
CallPlayFile ==
    /\ \E f \in AudioFiles \cup {NoFile}, reopen_ok \in BOOLEAN,
          sink_ok \in BOOLEAN :
          /\ player' = PlayFile(player, f, now, reopen_ok, sink_ok)
          /\ played' = IF player.has_sink /\ f.kind = "audio" /\ ~f.big
                       THEN Some(f.samples) ELSE played
    /\ UNCHANGED <<lpc, now, current_tab, input_mode, search_input,
                   cursor_position, is_loading, loading_status,
                   search_results, search_selected, graph_config, datasets,
                   fed, frozen_over, event_q, downloads, searches,
                   cache_file>>
    /\ UNCHANGED <<radio_selected, display, scopeVars>>

CallTogglePause ==
    /\ player' = TogglePause(player, now)
    /\ UNCHANGED <<lpc, now, current_tab, input_mode, search_input,
                   cursor_position, is_loading, loading_status,
                   search_results, search_selected, graph_config, datasets,
                   played, fed, frozen_over, event_q, downloads, searches,
                   cache_file>>
    /\ UNCHANGED <<radio_selected, display, scopeVars>>

PlayerNext ==
    \/ Tick
    \/ CallPlayFile
    \/ CallTogglePause

PlayerSpec == Init /\ [][PlayerNext]_vars

ScopeInit ==
    /\ AppParked
    /\ spc = "parsed"
    /\ opts \in OptionSets
    /\ opts_in = opts
    /\ fs_channels = 0
    /\ fs_buffer = <<>>
    /\ file_data \in FileContents
    /\ file_pos = 0
    /\ read_so_far = 0
    /\ read_from = 0
    /\ read_failed = FALSE
    /\ parse_chunks = <<>>
    /\ recv_result = None
    /\ nrecv = 0

\* main: args.opts.tune()
Tune ==
    /\ spc = "parsed"
    /\ opts' = TunedOptions(opts)
    /\ spc' = "tuned"
    /\ UNCHANGED <<opts_in, fs_channels, fs_buffer, file_data, file_pos,
                   read_so_far, read_from, read_failed, parse_chunks,
                   recv_result, nrecv>>
    /\ UNCHANGED appVars

\* FileSource::new: the buffer holds opts.buffer * opts.channels zero bytes
FileSourceNew ==
    /\ spc = "tuned"
    /\ \/ /\ fs_channels' = opts.channels
          /\ fs_buffer' = Zeros(opts.buffer * opts.channels)
          /\ spc' = "ready"
       \/ /\ spc' = "open_failed"   \* File::open(path)? fails
          /\ UNCHANGED <<fs_channels, fs_buffer>>
    /\ UNCHANGED <<opts, opts_in, file_data, file_pos, read_so_far, read_from,
                   read_failed, parse_chunks, recv_result, nrecv>>
    /\ UNCHANGED appVars

\* FileSource::recv is entered: read_with_padding starts
RecvCall ==
    /\ spc = "ready"
    /\ nrecv < MaxRecv
    /\ nrecv' = nrecv + 1
    /\ read_so_far' = 0
    /\ read_from' = file_pos
    /\ read_failed' = FALSE
    /\ parse_chunks' = <<>>
    /\ spc' = "reading"
    /\ UNCHANGED <<opts, opts_in, fs_channels, fs_buffer, file_data, file_pos,
                   recv_result>>
    /\ UNCHANGED appVars

\* one iteration of read_with_padding's loop: a read() into the rest
ReadStep ==
    /\ spc = "reading"
    /\ read_so_far < Len(fs_buffer)
    /\ LET avail == Len(file_data) - file_pos
           rest == Len(fs_buffer) - read_so_far
       IN  \/ /\ avail > 0        \* n > 0 bytes arrive
              /\ \E n \in 1..Min(rest, avail) :
                    /\ fs_buffer' = CopyIn(fs_buffer, read_so_far, file_data,
                                           file_pos, n)
                    /\ file_pos' = file_pos + n
                    /\ read_so_far' = read_so_far + n
              /\ UNCHANGED <<spc, read_failed>>
           \/ /\ avail = 0        \* n = 0: end of file, pad and return Ok
              /\ fs_buffer' = PadZeros(fs_buffer, read_so_far)
              /\ spc' = "read_done"
              /\ UNCHANGED <<file_pos, read_so_far, read_failed>>
           \/ /\ read_failed' = TRUE   \* file.read(..)? returns Err
              /\ spc' = "read_done"
              /\ UNCHANGED <<fs_buffer, file_pos, read_so_far>>
    /\ UNCHANGED <<opts, opts_in, fs_channels, file_data, read_from,
                   parse_chunks, recv_result, nrecv>>
    /\ UNCHANGED appVars

\* the loop condition fails: the buffer is full, Ok(())
ReadFull ==
    /\ spc = "reading"
    /\ read_so_far >= Len(fs_buffer)
    /\ spc' = "read_done"
    /\ UNCHANGED <<opts, opts_in, fs_channels, fs_buffer, file_data, file_pos,
                   read_so_far, read_from, read_failed, parse_chunks,
                   recv_result, nrecv>>
    /\ UNCHANGED appVars

\* recv's match on the result of read_with_padding
RecvReturn ==
    /\ spc = "read_done"
    /\ \/ /\ read_failed
          /\ recv_result' = None
          /\ spc' = "returned"
          /\ UNCHANGED parse_chunks
       \/ /\ ~read_failed
          /\ parse_chunks' = ChunksOf(fs_buffer)
          /\ LET chunks == ChunksOf(fs_buffer)
                 whole == \A k \in 1..Len(chunks) : Len(chunks[k]) = 2
             IN  \/ /\ whole
                    /\ recv_result' =
                         Some(StreamToMatrix([k \in 1..Len(chunks) |->
                                                 Parse16(chunks[k])],
                                             fs_channels, NormDivisor))
                    /\ spc' = "returned"
                 \/ /\ ~whole   \* parse of a truncated chunk: out of contract
                    /\ \/ /\ spc' = "panicked"
                          /\ UNCHANGED recv_result
                       \/ /\ \E hi \in TruncatedHighBytes :
                               recv_result' =
                                 Some(StreamToMatrix(
                                    [k \in 1..Len(chunks) |->
                                        IF Len(chunks[k]) = 2
                                        THEN Parse16(chunks[k])
                                        ELSE Parse16(<<chunks[k][1], hi>>)],
                                    fs_channels, NormDivisor))
                          /\ spc' = "returned"
    /\ UNCHANGED <<opts, opts_in, fs_channels, fs_buffer, file_data, file_pos,
                   read_so_far, read_from, read_failed, nrecv>>
    /\ UNCHANGED appVars

\* the frame loop pulls again after Some, and stops after None
FrameLoop ==
    /\ spc = "returned"
    /\ spc' = IF recv_result.some THEN "ready" ELSE "stopped"
    /\ UNCHANGED <<opts, opts_in, fs_channels, fs_buffer, file_data, file_pos,
                   read_so_far, read_from, read_failed, parse_chunks,
                   recv_result, nrecv>>
    /\ UNCHANGED appVars

ScopeNext ==
    \/ Tune
    \/ FileSourceNew
    \/ RecvCall
    \/ ReadStep
    \/ ReadFull
    \/ RecvReturn
    \/ FrameLoop

ScopeSpec == ScopeInit /\ [][ScopeNext]_vars

(* ================= scope-tui: properties =============================== *)

\* tune has run on a note name that parses
TunedOnNote ==
    /\ spc # "parsed"
    /\ opts_in.tune.some
    /\ ParseNote(opts_in.tune.v).ok

NotePeriod == RoundedPeriod(ParseNote(opts_in.tune.v), opts_in.sample_rate)

NoteSize == TuneBufferSize(ParseNote(opts_in.tune.v), opts_in.sample_rate)

PassesGuard(n) == n % (opts_in.channels * 2) # 0

\* C1: after SourceOptions::tune has run on a parsable note, the buffer size
\* is never evenly divisible by channels * 2.
C1_TunedBufferNotAligned ==
    TunedOnNote => opts.buffer % (opts.channels * 2) # 0

\* the alignment loop had to move the buffer size off a multiple
C1_Witness ==
    /\ TunedOnNote
    /\ spc = "tuned"
    /\ NoteSize % (opts.channels * 2) = 0
    /\ opts.buffer # NoteSize

\* C2 as stated: the tuned buffer size is a multiple of the note's rounded
\* period, and the smallest multiple that passes the alignment guard.
C2_SmallestMultipleOfPeriod ==
    TunedOnNote =>
        /\ opts.buffer % NotePeriod = 0
        /\ PassesGuard(opts.buffer)
        /\ \A k \in 1..(opts.buffer \div NotePeriod) :
              (k * NotePeriod < opts.buffer) => ~PassesGuard(k * NotePeriod)

\* C2 as amended: the tuned buffer size is the smallest integer at or above
\* the note's tune_buffer_size that passes the alignment guard; it is that
\* size (a multiple of the period) when it passes the guard itself, and one
\* more otherwise.
C2_SmallestAtOrAboveNoteSize ==
    TunedOnNote =>
        /\ opts.buffer >= NoteSize
        /\ PassesGuard(opts.buffer)
        /\ \A n \in NoteSize..(opts.buffer - 1) : ~PassesGuard(n)
        /\ PassesGuard(NoteSize) =>
              (opts.buffer = NoteSize /\ opts.buffer % NotePeriod = 0)
        /\ ~PassesGuard(NoteSize) => opts.buffer = NoteSize + 1

\* the tuned size left the multiples of the period
C2_Witness ==
    /\ TunedOnNote
    /\ spc = "tuned"
    /\ opts.buffer = NoteSize + 1
    /\ opts.buffer % NotePeriod # 0

\* C3: with no tune option, or one that does not parse, tune leaves buffer,
\* channels and sample_rate as they were and completes; only a parsable
\* note changes the buffer.
C3_UnparsableKeepsOptions ==
    /\ spc = "parsed" => ENABLED Tune
    /\ (spc # "parsed" /\ ~(opts_in.tune.some /\ ParseNote(opts_in.tune.v).ok))
          => opts = opts_in
    /\ opts.buffer # opts_in.buffer => TunedOnNote
    /\ opts.channels = opts_in.channels
    /\ opts.sample_rate = opts_in.sample_rate

\* tune ran on a text that is no note, with a buffer size the loop would move
C3_Witness ==
    /\ spc = "tuned"
    /\ opts_in.tune.some
    /\ ~ParseNote(opts_in.tune.v).ok
    /\ opts_in.buffer > 0
    /\ opts_in.buffer % (opts_in.channels * 2) = 0
    /\ opts.buffer = opts_in.buffer

\* C7: every Matrix FileSource::recv returns has `channels` channels, each as
\* long as the configured buffer size.
C7_RecvMatrixHasBufferLength ==
    (spc = "returned" /\ recv_result.some) =>
        /\ Len(recv_result.v) = opts.channels
        /\ \A c \in 1..Len(recv_result.v) : Len(recv_result.v[c]) = opts.buffer

\* number of bytes the current read_with_padding took from the file
BytesRead == file_pos - read_from

\* C8: when read_with_padding returns Ok the buffer holds the bytes read from
\* the file, in order, as many as were available up to the buffer's length,
\* followed only by zero bytes; its length is unchanged.
C8_BufferIsDataThenZeros ==
    (spc \in {"read_done", "returned"} /\ ~read_failed) =>
        /\ Len(fs_buffer) = opts.buffer * opts.channels
        /\ BytesRead = Min(Len(fs_buffer), Len(file_data) - read_from)
        /\ \A i \in 1..Len(fs_buffer) :
              fs_buffer[i] = IF i <= BytesRead THEN file_data[read_from + i]
                             ELSE 0

\* a second read that ends short over a buffer full of non-zero bytes
C8_Witness ==
    /\ spc = "read_done"
    /\ ~read_failed
    /\ nrecv = 2
    /\ read_from = Len(fs_buffer)
    /\ \A i \in 1..read_from : file_data[i] # 0
    /\ BytesRead > 0
    /\ BytesRead < Len(fs_buffer)

\* C9: recv returns None only when the read returned an I/O error; a read
\* that ends at the end of the file, or past it, yields Some(Matrix).
C9_NoneOnlyOnIoError ==
    /\ spc # "panicked"
    /\ spc = "returned" => (recv_result.some <=> ~read_failed)

\* C10: every chunk recv passes to Signed16PCM::parse is two bytes long.
C10_ChunksAreTwoBytes ==
    \A k \in 1..Len(parse_chunks) : Len(parse_chunks[k]) = 2

(* ================= properties of the application ======================= *)

\* C4: while the configuration's pause flag is true, process returns the
\* dataset list it retained: the list changes only in a draw step taken with
\* the flag false, so every paused frame shows the last list computed before
\* pausing, whatever Matrix the frame supplies.
C4_PausedProcessFrozen ==
    [][datasets' # datasets => (lpc = "draw" /\ ~graph_config.pause)]_vars

\* two process calls in a row made while paused, on two different Matrices,
\* after a list with samples in it had been computed
C4_Witness ==
    /\ frozen_over
    /\ graph_config.pause
    /\ \E c \in 1..Len(datasets) :
          \E i \in 1..Len(datasets[c].points) : datasets[c].points[i][2] # 0

\* the flat sequence play_file decoded last, while audio_data holds it
Decoded == played.v

HoldsDecoded == played.some /\ ~player.is_streaming_mode

CeilDiv(a, b) == (a + b - 1) \div b

\* sample i (from 0) of the flat sequence is element i div C of channel
\* i mod C
RoutedByIndex(flat, m, channels) ==
    \A i \in 0..(Len(flat) - 1) :
        /\ (i \div channels) + 1 <= Len(m[(i % channels) + 1])
        /\ m[(i % channels) + 1][(i \div channels) + 1] = flat[i + 1]

\* reading the channels round-robin yields exactly the flat sequence: the
\* routing above, and no element besides the routed ones
RoundRobinReconstructs(flat, m, channels) ==
    /\ RoutedByIndex(flat, m, channels)
    /\ \A c \in 1..channels : \A k \in 1..Len(m[c]) :
          (k - 1) * channels + (c - 1) < Len(flat)

\* C5 as stated: routing by i mod C, every channel of length ceil(L/C),
\* round-robin reading reconstructs the decoded sequence.
C5_EveryChannelCeil ==
    HoldsDecoded =>
        /\ Len(player.audio_data) = player.channels
        /\ RoundRobinReconstructs(Decoded, player.audio_data, player.channels)
        /\ \A c \in 1..player.channels :
              Len(player.audio_data[c]) =
                  CeilDiv(Len(Decoded), player.channels)

\* C5: routing by i mod C and round-robin reconstruction, with channel k
\* (from 0) of length ceil((L - k)/C): ceil(L/C) for the first L mod C
\* channels (for all when C divides L) and floor(L/C) for the others.
C5_ChannelLengthsByIndex ==
    HoldsDecoded =>
        /\ Len(player.audio_data) = player.channels
        /\ RoundRobinReconstructs(Decoded, player.audio_data, player.channels)
        /\ \A c \in 1..player.channels :
              /\ Len(player.audio_data[c]) =
                     IF Len(Decoded) < c - 1 THEN 0
                     ELSE CeilDiv(Len(Decoded) - (c - 1), player.channels)
              /\ Len(player.audio_data[c]) =
                     IF c - 1 < Len(Decoded) % player.channels
                     THEN CeilDiv(Len(Decoded), player.channels)
                     ELSE Len(Decoded) \div player.channels

\* a decoded sequence of more than one frame whose length is not a multiple
\* of the channel count
C5_Witness ==
    /\ HoldsDecoded
    /\ player.channels > 1
    /\ Len(Decoded) > player.channels
    /\ Len(Decoded) % player.channels # 0

\* the window sizes get_window is asked for
WindowSizes == 0..MaxWindow \cup {graph_config.samples}

\* first index of audio_data the current playback position selects
StartSample == GetCurrentTime(player, now) * player.sample_rate

\* C6: in every state of the player and for every window size, get_window
\* returns `channels` channels, each exactly window_size long, and every
\* position beyond the data available from the playback position holds 0.
C6_WindowShapeAndPadding ==
    \A ws \in WindowSizes :
        LET w == GetWindow(player, now, ws)
        IN  /\ Len(w) = player.channels
            /\ \A c \in 1..Len(w) :
                  /\ Len(w[c]) = ws
                  /\ \A k \in 1..Len(w[c]) :
                        StartSample + k > Len(player.audio_data[c])
                            => w[c][k] = 0

\* playing, with channels of unequal length, at a position past the end of
\* one channel and inside another
C6_Witness ==
    /\ ~player.is_paused
    /\ ~player.is_streaming_mode
    /\ player.sink_state = "playing"
    /\ \E c \in 1..player.channels, d \in 1..player.channels :
          /\ StartSample >= Len(player.audio_data[c])
          /\ StartSample < Len(player.audio_data[d])
          /\ GetWindow(player, now, MaxWindow)[d][1] # 0

(* ================= properties: samples and key events ================== *)

\* the Matrix entry that holds the k-th chunk (k from 1) of the file buffer
EntryOfChunk(m, k, channels) ==
    m[((k - 1) % channels) + 1][((k - 1) \div channels) + 1]

ArrowCodes == {"Up", "Down", "Left", "Right"}

AdjustArms == {"scale_up", "scale_down", "window_up", "window_down"}

\* C13: each of the multipliers x10, x5 and x0.2 (in fifths: 50, 25, 1) is
\* the magnitude of some key event that reaches a scale or window
\* adjustment, on some tab.
C13_EveryMultiplierApplies ==
    (lpc = "input" /\ input_mode = "Normal") =>
        \A m \in {50, 25, 1} :
            \E key \in Keys, tab \in 0..(TabCount - 1) :
                /\ NormalKeyArm(key, tab) \in AdjustArms
                /\ Magnitude(key.mods) = m

\* the bindings of Normal mode, each with its guard on tab and modifiers
Bound(key, tab) ==
    \/ key.code = "/" /\ tab = 2
    \/ key.code = "q"
    \/ key.code \in ArrowCodes /\ "SHIFT" \in key.mods /\ tab = RadioTab
    \/ key.code \in {"s", " "} /\ tab = RadioTab
    \/ key.code \in {"+", "-"}
    \/ key.code \in ArrowCodes /\ "SHIFT" \notin key.mods
    \/ key.code = "Tab"
    \/ key.code \in {"p", "Enter", "r"} /\ tab = 5

\* C14: in Normal mode a key event that matches no binding, or whose guard
\* on tab or modifier is not met, reaches the arm that does nothing, and a
\* step of that arm changes nothing of the application but the place in the
\* loop, which goes on.
C14_UnboundKeyChangesNothing ==
    /\ [](input_mode = "Normal" =>
            \A key \in Keys :
                ~Bound(key, current_tab) =>
                    NormalKeyArm(key, current_tab) = "none")
    /\ [][KeyIgnored =>
            /\ UNCHANGED <<now, current_tab, input_mode, searchVars,
                           graph_config, player, datasets, asyncVars,
                           radio_selected, display>>
            /\ lpc' = "draw"]_vars

\* away from the radio tab with a station selected by hand, where Shift+Up
\* and 's' have their guard on the tab unmet
C14_Witness ==
    /\ lpc = "input"
    /\ input_mode = "Normal"
    /\ current_tab = 2
    /\ radio_selected # InitStation
    /\ \E key \in Keys :
          /\ key.code = "Up"
          /\ key.mods = {"SHIFT"}
          /\ ~Bound(key, current_tab)
          /\ NormalKeyArm(key, current_tab) = "none"

\* the tab on which draw renders draw_playlists
PlaylistsTab == 1

\* C17: on the playlists tab, pressing 'p' in Normal mode switches
\* input_mode to PlaylistNameInput.
C17_PlaylistKeyOpensNameInput ==
    [][(KeyP /\ current_tab = PlaylistsTab)
          => input_mode' = "PlaylistNameInput"]_vars

\* the tabs the tab keys and AudioLoaded lead to, and no playlist input
NoPlaylistInput ==
    /\ current_tab \in 0..(TabCount - 1)
    /\ input_mode # "PlaylistNameInput"

\* a frame that is processed, not retained: a scope tab is drawn, unpaused
ProcessedFrame ==
    /\ Draw
    /\ current_tab \notin {1, 2}
    /\ ~graph_config.pause

\* the Matrix the frame's process call is given
FrameMatrix == GetWindow(player, now, graph_config.samples)

\* a dataset list with every y doubled and, for the vectorscope, every x too
Doubled(mode, ds) ==
    [d \in 1..Len(ds) |->
        [ds[d] EXCEPT !.points =
            [i \in 1..Len(ds[d].points) |->
                <<IF mode = "vectorscope"
                  THEN 2 * ds[d].points[i][1] ELSE ds[d].points[i][1],
                  2 * ds[d].points[i][2]>>]]]

C16_OneDatasetPerChannelPair ==
    [][(ProcessedFrame /\ display = "vectorscope") =>
          LET m == FrameMatrix
              n == IF Len(m) = 0 THEN 0
                   ELSE Min(graph_config.samples, Len(m[1]))
          IN  /\ Len(datasets') = Len(m) \div 2
              /\ \A k \in 1..Len(datasets') :
                    /\ Len(datasets'[k].points) = n
                    /\ \A i \in 1..n :
                          datasets'[k].points[i] =
                              <<graph_config.scale
                                    * m[2 * k - 1][Len(m[2 * k - 1]) - n + i],
                                graph_config.scale
                                    * m[2 * k][Len(m[2 * k]) - n + i]>>]_vars

\* three channels or more in odd number: the frame has floor(C/2) datasets
\* with a point off the origin
C16_Witness ==
    /\ lpc = "events"
    /\ display = "vectorscope"
    /\ player.channels % 2 = 1
    /\ player.channels >= 3
    /\ Len(datasets) = player.channels \div 2
    /\ \E i \in 1..Len(datasets[1].points) : datasets[1].points[i][2] # 0

\* C19: whenever a download or search has been started whose event the
\* loop has not handled yet (its thread runs, or its event waits in the
\* channel), is_loading is true, with one request outstanding or several.
C19_LoadingWhileOutstanding == Pending > 0 => is_loading

\* C20: when the loop handles AudioLoaded, stream_cache.mp3 holds what the
\* download of the request that sent this event wrote: no other download
\* has overwritten it since.
C20_PlayedFileIsOwnDownload ==
    [][RecvAudioLoaded => cache_file = Head(event_q).wrote]_vars

\* the requests whose event waits in the channel
Sent == {event_q[i].req : i \in 1..Len(event_q)}

\* a step appends one event to the channel: of request r, of one of `types`
Sends(r, types) ==
    /\ Len(event_q') = Len(event_q) + 1
    /\ SubSeq(event_q', 1, Len(event_q)) = event_q
    /\ event_q'[Len(event_q')].req = r
    /\ event_q'[Len(event_q')].type \in types

\* A thread ends, unless the loop has ended, by sending one event of its own
\* request and kind, and nothing else puts an event into the channel; no
\* request has two events, or an event and a thread; the loop takes events
\* from the head of the channel only, one in an iteration.
OneAnswerInOrder ==
    /\ [][\A r \in RequestIds :
            /\ (r \in downloads /\ r \notin downloads' /\ lpc' # "quit") =>
                  Sends(r, {"AudioLoaded", "AudioError"})
            /\ (r \in searches /\ r \notin searches' /\ lpc' # "quit") =>
                  Sends(r, {"SearchFinished", "SearchError"})]_vars
    /\ [][Len(event_q') > Len(event_q) =>
            \E r \in (downloads \cup searches)
                        \ (downloads' \cup searches') :
                Sends(r, {"AudioLoaded", "AudioError",
                          "SearchFinished", "SearchError"})]_vars
    /\ [](/\ downloads \cap searches = {}
          /\ Sent \cap (downloads \cup searches) = {}
          /\ Cardinality(Sent) = Len(event_q))
    /\ [][(event_q' # event_q /\ Len(event_q') <= Len(event_q)) =>
            \/ lpc' = "quit"
            \/ /\ event_q' = Tail(event_q)
               /\ lpc = "events"
               /\ lpc' = "input"]_vars

\* C18: every request gets exactly one response and the loop handles it:
\* each download thread sends exactly one AudioLoaded or AudioError, each
\* search thread exactly one SearchFinished or SearchError, events leave the
\* channel in the order sent and at most one per loop iteration, and, as
\* long as the loop runs, every request started is eventually answered and
\* every event sent is eventually handled.
C18_EveryRequestAnsweredOnce ==
    /\ OneAnswerInOrder
    /\ \A r \in RequestIds :
          /\ (r \in downloads \cup searches) ~> (r \in Sent \/ ~LoopRuns)
          /\ (r \in Sent) ~> (r \notin InUse \/ ~LoopRuns)

\* the first of two answers waiting in the channel has just been handled
C18_Witness ==
    /\ lpc = "input"
    /\ loading_status = Some("Found results")
    /\ Len(event_q) = 1
    /\ event_q[1].type = "AudioLoaded"

\* C21: the pause flag of the display and the pause state of the player
\* agree in every state: graph_config.pause = player.is_paused.
C21_PauseFlagsAgree == graph_config.pause = player.is_paused

(* ================= properties: the player and the loop's modes ========= *)

\* get_current_time now, in clock ticks
CurrentTime == GetCurrentTime(player, now)

\* the clock runs for the player: it is not paused and has a start time
Playing == ~player.is_paused /\ player.start_time.some

\* the step is a play_file that starts a new sink
NewSinkStarted ==
    /\ now' = now
    /\ player.has_sink
    /\ \E f \in AudioFiles, reopen_ok \in BOOLEAN :
          /\ f.kind = "audio"
          /\ f.big \/ reopen_ok
          /\ player' = PlayFile(player, f, now, reopen_ok, TRUE)

\* C22: over toggle_pause calls, play_file calls and clock ticks,
\* get_current_time never decreases except when play_file starts a new sink,
\* stays constant while the player is paused, advances by the clock while
\* playing, and comes back to zero only when play_file starts a new sink.
C22_CurrentTimeMonotone ==
    [][LET before == CurrentTime
           after == GetCurrentTime(player', now')
       IN  /\ ~NewSinkStarted => after >= before
           /\ (player.is_paused /\ player'.is_paused) => after = before
           /\ (Playing /\ Playing' /\ ~NewSinkStarted) =>
                 after = before + (now' - now)
           /\ (before > 0 /\ after = 0) => NewSinkStarted]_vars

\* paused after some time played, with the clock gone on since
C22_Witness ==
    /\ player.is_paused
    /\ player.elapsed_when_paused > 0
    /\ player.total_duration.some
    /\ now = MaxClock

\* C23: whenever input_mode is SearchResults, search_results is not empty
\* and the selection is an index below its length, whatever keys and search
\* events came before; Down and Up move the selection by one within that
\* range, wrapping around at its ends.
C23_SelectionWithinResults ==
    /\ [](input_mode = "SearchResults" =>
            /\ search_results # <<>>
            /\ search_selected.some
            /\ search_selected.v \in 0..(Len(search_results) - 1))
    /\ [][ResultsMove =>
            LET n == Len(search_results)
                i == search_selected.v
            IN  /\ search_selected'.some
                /\ search_selected'.v \in {(i + 1) % n, (i + n - 1) % n}]_vars

\* the last of several results is selected while another answer waits
C23_Witness ==
    /\ input_mode = "SearchResults"
    /\ Len(search_results) > 1
    /\ search_selected = Some(Len(search_results) - 1)
    /\ event_q # <<>>
    /\ Head(event_q).type = "SearchFinished"

\* a search has been started whose event the loop has not handled yet
SearchOutstanding ==
    \/ searches # {}
    \/ \E i \in 1..Len(event_q) :
          event_q[i].type \in {"SearchFinished", "SearchError"}

\* Enter in Editing mode starts exactly one request, a download for a URL
\* (and the mode becomes Normal) and a search for anything else (and the
\* mode stays Editing), and clears the text and the cursor
EnterStartsOneRequest ==
    [][EditEnter =>
          /\ search_input' = <<>>
          /\ cursor_position' = 0
          /\ event_q' = event_q
          /\ \E r \in RequestIds \ InUse :
                IF IsUrl(search_input)
                THEN /\ downloads' = downloads \cup {r}
                     /\ searches' = searches
                     /\ input_mode' = "Normal"
                ELSE /\ searches' = searches \cup {r}
                     /\ downloads' = downloads
                     /\ input_mode' = "Editing"]_vars

\* the step is the handling of a search event that leaves input_mode as the
\* event asks: SearchResults for results, Normal for none or for an error
SearchEventSetsMode ==
    \/ /\ RecvSearchFinished
       /\ input_mode' = IF Head(event_q).results # <<>>
                        THEN "SearchResults" ELSE "Normal"
    \/ /\ RecvSearchError
       /\ input_mode' = "Normal"

\* C24 as stated: Enter starts one request and clears the text, and with a
\* search outstanding input_mode stays Editing until a SearchFinished or a
\* SearchError is handled.
C24_EditingUntilSearchEvent ==
    /\ EnterStartsOneRequest
    /\ [][(input_mode = "Editing" /\ SearchOutstanding
              /\ input_mode' # "Editing") => SearchEventSetsMode]_vars

\* C24: Enter starts one request and clears the text, and with a search
\* outstanding input_mode leaves Editing only when a SearchFinished or a
\* SearchError is handled, when Esc is pressed, or when Enter is pressed on
\* a URL (the last two to Normal).
C24_EditingUntilEventOrKey ==
    /\ EnterStartsOneRequest
    /\ [][(input_mode = "Editing" /\ SearchOutstanding
              /\ input_mode' # "Editing") =>
            \/ SearchEventSetsMode
            \/ EditEsc /\ input_mode' = "Normal"
            \/ EditEnter /\ IsUrl(search_input) /\ input_mode' = "Normal"]_vars

\* Enter has just started a search: the text is cleared, the mode is Editing
C24_Witness ==
    /\ lpc = "draw"
    /\ input_mode = "Editing"
    /\ searches # {}
    /\ search_input = <<>>
    /\ loading_status = Some("Searching")

\* the loop ends in this step
LoopEnds == lpc # "quit" /\ lpc' = "quit"

\* a key event of the Editing mode makes the text one character longer
TextGrows ==
    /\ lpc = "input"
    /\ input_mode = "Editing"
    /\ Len(search_input') = Len(search_input) + 1

\* of all the arms of all the modes only 'q' in Normal mode quits (on the
\* tab the program is on); 'q' meets
\* the character arm of Editing and of PlaylistNameInput and no arm of
\* SearchResults and of PlaylistNavigation; and the loop ends only by a key
\* event taken in Normal mode
QuitOnlyInNormal ==
    /\ [](\A mode \in InputModes, key \in ModeKeys :
            /\ ModeKeyArm(mode, key, current_tab) = "quit"
                  <=> (mode = "Normal" /\ key.code = "q")
            /\ key.code = "q" /\ mode = "Editing" =>
                  ModeKeyArm(mode, key, current_tab) = "enter_char"
            /\ key.code = "q" /\ mode = "PlaylistNameInput" =>
                  ModeKeyArm(mode, key, current_tab) = "name_push"
            /\ key.code = "q" /\ mode \in {"SearchResults",
                                            "PlaylistNavigation"} =>
                  ModeKeyArm(mode, key, current_tab) = "none")
    /\ [][LoopEnds => lpc = "input" /\ input_mode = "Normal"]_vars
    /\ [][TextGrows => lpc' = "draw" /\ input_mode' = "Editing"]_vars

Handles(type) ==
    /\ lpc = "events"
    /\ event_q # <<>>
    /\ Head(event_q).type = type
    /\ lpc' = "input"

\* C26: handling AudioLoaded sets is_loading to false, calls play_file on
\* the cache file and switches current_tab to 4 while input_mode stays as it
\* is; handling AudioError sets is_loading to false and puts the error into
\* loading_status while current_tab, input_mode, the player and
\* graph_config stay as they are.
C26_AudioEventEffects ==
    /\ [][Handles("AudioLoaded") =>
            /\ ~is_loading'
            /\ \E reopen_ok \in BOOLEAN, sink_ok \in BOOLEAN :
                  player' = PlayFile(player, cache_file, now, reopen_ok,
                                     sink_ok)
            /\ current_tab' = 4
            /\ input_mode' = input_mode]_vars
    /\ [][Handles("AudioError") =>
            /\ ~is_loading'
            /\ loading_status' = Some("Error")
            /\ UNCHANGED <<current_tab, input_mode, player,
                           graph_config>>]_vars

\* AudioLoaded was handled in Editing mode, entered on the search tab: the
\* file plays on the radio tab and the mode is still Editing
C26_Witness ==
    /\ lpc = "input"
    /\ input_mode = "Editing"
    /\ current_tab = RadioTab
    /\ ~is_loading
    /\ loading_status = Some("Playing URL")
    /\ player.sink_state = "playing"

\* a play_file call that finds no file or no audio in it
PlayFails ==
    /\ now' = now
    /\ player.has_sink
    /\ \E f \in {NoFile, BadFile} :
          player' = PlayFile(player, f, now, FALSE, FALSE)

\* C27: player.error_message reflects the most recent play_file call: it is
\* set by a call that cannot open or decode the file and it is None after a
\* call that succeeds.
C27_ErrorReflectsLastPlay ==
    [][/\ PlayFails => player'.error_message.some
       /\ NewSinkStarted => player'.error_message = None]_vars

\* C28: whenever the player is paused or in streaming mode, get_window(n)
\* returns a flat line for every n: `channels` channels of n samples that
\* are all 0, whatever the audio data and the playback position.
C28_FlatLineWhenPausedOrStreaming ==
    player.is_paused \/ player.is_streaming_mode =>
        \A ws \in WindowSizes :
            LET w == GetWindow(player, now, ws)
            IN  /\ Len(w) = player.channels
                /\ \A c \in 1..Len(w) :
                      /\ Len(w[c]) = ws
                      /\ \A k \in 1..ws : w[c][k] = 0

\* paused on loaded audio, at a position whose sample is not zero
C28_Witness ==
    /\ player.is_paused
    /\ ~player.is_streaming_mode
    /\ \E c \in 1..player.channels :
          /\ StartSample < Len(player.audio_data[c])
          /\ player.audio_data[c][StartSample + 1] # 0


====
